---- MODULE Spec2Model ----
(***************************************************************************)
(* Model of init-data-rs: the first-party validator (sign, extract_hash,   *)
(* validate), the dual-token validator, the asymmetric (Ed25519) validator *)
(* and the decoder (parse) they hand the raw string to.                    *)
(*                                                                         *)
(* Strings are TLA+ strings; a byte is a natural number below 256.  The    *)
(* two cryptographic primitives are stand-ins (see HmacSha256 and          *)
(* Ed25519Sign): deterministic keyed functions with a fixed-width output,  *)
(* free of collisions on the inputs enumerated here.                       *)
(***************************************************************************)
EXTENDS Integers, Sequences, FiniteSets, TLC

(***************************************************************************)
(* Bytes and strings                                                       *)
(***************************************************************************)

\* Printable ASCII in code order; byte 96 (the backtick) has no literal.
AsciiLow == " !\"#$%&'()*+,-./0123456789:;<=>?@ABCDEFGHIJKLMNOPQRSTUVWXYZ[\\]^_"

AsciiHigh == "abcdefghijklmnopqrstuvwxyz{|}~"

Chars ==
    {SubSeq(AsciiLow, i, i) : i \in 1..Len(AsciiLow)}
        \cup {SubSeq(AsciiHigh, i, i) : i \in 1..Len(AsciiHigh)} \cup {"\n"}

\* The byte value of a one-character string.
Ord ==
    [c \in Chars |->
        IF c = "\n" THEN 10
        ELSE IF \E i \in 1..Len(AsciiLow) : SubSeq(AsciiLow, i, i) = c
             THEN 31 + (CHOOSE i \in 1..Len(AsciiLow) : SubSeq(AsciiLow, i, i) = c)
             ELSE 96 + (CHOOSE i \in 1..Len(AsciiHigh) : SubSeq(AsciiHigh, i, i) = c)]

\* The one-character string of a byte value (inverse of Ord).
Chr == [b \in {Ord[c] : c \in Chars} |-> CHOOSE c \in Chars : Ord[c] = b]

At(s, i) == SubSeq(s, i, i)

as_bytes(s) == [i \in 1..Len(s) |-> Ord[At(s, i)]]

HexLower == "0123456789abcdef"

HexDigits == {At("0123456789abcdefABCDEF", i) : i \in 1..22}

DecDigits == {At("0123456789", i) : i \in 1..10}

is_ascii_hexdigit(c) == c \in HexDigits

\* Value of a hex digit, either case.
HexVal(c) ==
    LET o == Ord[c]
    IN  IF o >= 97 THEN o - 87 ELSE IF o >= 65 THEN o - 55 ELSE o - 48

\* The least element of a non-empty set of numbers.
Min(S) == CHOOSE i \in S : \A j \in S : i <= j

RECURSIVE ConcatRange(_, _, _)
\* The concatenation strs[lo] \o ... \o strs[hi], by bisection.
ConcatRange(strs, lo, hi) ==
    IF lo > hi THEN ""
    ELSE IF lo = hi THEN strs[lo]
    ELSE LET mid == (lo + hi) \div 2
         IN  ConcatRange(strs, lo, mid) \o ConcatRange(strs, mid + 1, hi)

Concat(strs) == ConcatRange(strs, 1, Len(strs))

\* str::contains for a one-character pattern.
contains(s, c) == \E i \in 1..Len(s) : At(s, i) = c

\* str::find: the first index (1-based) where pat starts, 0 when absent.
find(s, pat) ==
    LET hits == {i \in 1..(Len(s) - Len(pat) + 1) : SubSeq(s, i, i + Len(pat) - 1) = pat}
    IN  IF hits = {} THEN 0 ELSE Min(hits)

\* chars().all(pred) for a predicate given as a set of characters.
all_chars(s, set) == \A i \in 1..Len(s) : At(s, i) \in set

\* String ordering of Rust's Ord for str: byte-wise lexicographic.
StrLess(a, b) ==
    LET n == IF Len(a) < Len(b) THEN Len(a) ELSE Len(b)
        diff == {i \in 1..n : At(a, i) # At(b, i)}
    IN  IF diff = {} THEN Len(a) < Len(b)
        ELSE Ord[At(a, Min(diff))] < Ord[At(b, Min(diff))]

\* [String]::join(sep)
Join(strs, sep) ==
    Concat([i \in 1..Len(strs) |-> IF i = 1 THEN strs[i] ELSE sep \o strs[i]])

\* splitn(2, ch): the text before the first ch and the text after it
\* (rest = "" when ch does not occur).
SplitN2(s, ch) ==
    LET pos == find(s, ch)
    IN  IF pos = 0 THEN [head |-> s, rest |-> ""]
        ELSE [head |-> SubSeq(s, 1, pos - 1), rest |-> SubSeq(s, pos + 1, Len(s))]

(***************************************************************************)
(* url::form_urlencoded::parse                                             *)
(***************************************************************************)

\* '+' becomes a space.
replace_plus(s) ==
    Concat([i \in 1..Len(s) |-> IF At(s, i) = "+" THEN " " ELSE At(s, i)])

\* A percent escape starts at i: '%' followed by two hex digits.
EscapeAt(s, i) ==
    /\ i >= 1
    /\ i + 2 <= Len(s)
    /\ At(s, i) = "%"
    /\ is_ascii_hexdigit(At(s, i + 1))
    /\ is_ascii_hexdigit(At(s, i + 2))

\* "%XY" with two hex digits becomes the byte 16*X+Y; any other '%' is kept.
\* (A hex digit is never '%', so the escapes of a string do not overlap.)
percent_decode(s) ==
    Concat([i \in 1..Len(s) |->
        IF EscapeAt(s, i) THEN Chr[16 * HexVal(At(s, i + 1)) + HexVal(At(s, i + 2))]
        ELSE IF EscapeAt(s, i - 1) \/ EscapeAt(s, i - 2) THEN ""
        ELSE At(s, i)])

decode(s) == percent_decode(replace_plus(s))

\* The decoded (name, value) pair of one piece split at its first '='.
ParsePair(nv) == <<decode(nv.head), decode(nv.rest)>>

RECURSIVE form_urlencoded_parse(_)
RECURSIVE ParsePieces(_)
\* The pairs of a query string split at its first '&': an empty piece is
\* skipped.
ParsePieces(sp) ==
    IF sp.head = "" THEN form_urlencoded_parse(sp.rest)
    ELSE <<ParsePair(SplitN2(sp.head, "="))>> \o form_urlencoded_parse(sp.rest)

\* The sequence of decoded (name, value) pairs of a query string: split on
\* '&', skip empty pieces, split each piece at its first '='.
form_urlencoded_parse(input) ==
    IF input = "" THEN <<>> ELSE ParsePieces(SplitN2(input, "&"))

(***************************************************************************)
(* BTreeMap<String, String>: a sequence of <<key, value>> in strictly      *)
(* ascending key order.                                                    *)
(***************************************************************************)

RECURSIVE btree_insert_unordered(_, _, _)
\* An insert that overwrites a present key and appends an absent one, keeping
\* the order of first insertion.
btree_insert_unordered(m, k, v) ==
    IF m = <<>> THEN <<<<k, v>>>>
    ELSE IF m[1][1] = k THEN <<<<k, v>>>> \o Tail(m)
    ELSE <<m[1]>> \o btree_insert_unordered(Tail(m), k, v)

RECURSIVE btree_insert(_, _, _)
\* BTreeMap::insert: a present key has its value overwritten.
btree_insert(m, k, v) ==
    IF m = <<>> THEN <<<<k, v>>>>
    ELSE IF m[1][1] = k THEN <<<<k, v>>>> \o Tail(m)
    ELSE IF StrLess(k, m[1][1]) THEN <<<<k, v>>>> \o m
    ELSE <<m[1]>> \o btree_insert(Tail(m), k, v)

btree_keys(m) == {m[i][1] : i \in 1..Len(m)}

btree_get(m, k) == (CHOOSE i \in 1..Len(m) : m[i][1] = k)

(***************************************************************************)
(* Results                                                                 *)
(***************************************************************************)

Ok(v) == [tag |-> "Ok", val |-> v]

\* An InitDataError: its variant and, where the variant carries one, its message.
Err(kind, msg) == [tag |-> "Err", err |-> kind, msg |-> msg]

\* The call aborted (an arithmetic overflow in a build with overflow checks).
Panic == [tag |-> "Panic"]

IsOk(r) == r.tag = "Ok"

IsErr(r, kind) == r.tag = "Err" /\ r.err = kind

Some(v) == <<v>>

None == <<>>

unwrap_or(opt, d) == IF opt = None THEN d ELSE opt[1]

(***************************************************************************)
(* Unsigned 64-bit arithmetic, at a width the checker can enumerate        *)
(***************************************************************************)

\* Number of bits of the model's u64.
UintBits == 20

U64Max == 2 ^ UintBits - 1

\* a + b on u64: the build with overflow checks aborts on overflow, the
\* build without them wraps around.
u64_add(a, b, overflow_checks) ==
    IF a + b <= U64Max THEN [panic |-> FALSE, val |-> a + b]
    ELSE IF overflow_checks THEN [panic |-> TRUE, val |-> 0]
    ELSE [panic |-> FALSE, val |-> (a + b) % (U64Max + 1)]

RECURSIVE ParseDecFrom(_, _)
\* The value of a string of decimal digits, capped at U64Max + 1.
ParseDecFrom(s, acc) ==
    IF s = "" THEN acc
    ELSE IF acc > U64Max THEN U64Max + 1
    ELSE ParseDecFrom(Tail(s), acc * 10 + (Ord[Head(s)] - 48))

ParseDec(s) == LET v == ParseDecFrom(s, 0) IN IF v > U64Max THEN U64Max + 1 ELSE v

RECURSIVE ToDec(_)
\* u64::to_string
ToDec(n) == IF n < 10 THEN Chr[48 + n] ELSE ToDec(n \div 10) \o Chr[48 + (n % 10)]

(***************************************************************************)
(* sign.rs                                                                 *)
(***************************************************************************)

HmacP1 == 8388593

HmacP2 == 8388587

RECURSIVE AbsorbRange(_, _, _, _, _, _)
\* The running value acc after absorbing bytes[lo..hi] one byte at a time,
\* acc' = (acc * base + byte + 1) mod prime (computed by bisection).
AbsorbRange(bytes, lo, hi, acc, base, prime) ==
    IF lo > hi THEN acc
    ELSE IF lo = hi THEN (acc * base + bytes[lo] + 1) % prime
    ELSE LET mid  == (lo + hi) \div 2
             left == AbsorbRange(bytes, lo, mid, acc, base, prime)
         IN  IF left >= 0 THEN AbsorbRange(bytes, mid + 1, hi, left, base, prime) ELSE left

Absorb(bytes, acc, base, prime) == AbsorbRange(bytes, 1, Len(bytes), acc, base, prime)

\* Stand-in for HMAC-SHA256 (Hmac::new_from_slice(key), update(msg),
\* finalize): a keyed function of the key bytes and the message bytes with a
\* 32-byte output.  new_from_slice accepts a key of any length, so the
\* Internal error of sign cannot arise.
HmacSha256(key, msg) ==
    LET k1 == Absorb(key, 7, 251, HmacP1)
        k2 == Absorb(key, 11, 241, HmacP2)
        h1 == Absorb(msg, (k1 * 251 + 1) % HmacP1, 251, HmacP1)
        h2 == Absorb(msg, (k2 * 241 + 1) % HmacP2, 241, HmacP2)
    IN  [i \in 1..32 |->
            IF i = 1 THEN h1 \div 65536
            ELSE IF i = 2 THEN (h1 \div 256) % 256
            ELSE IF i = 3 THEN h1 % 256
            ELSE IF i = 4 THEN h2 \div 65536
            ELSE IF i = 5 THEN (h2 \div 256) % 256
            ELSE IF i = 6 THEN h2 % 256
            ELSE ((h1 % 4096) * i + (h2 % 4096) * (i + 3)) % 256]

\* hex::encode: two lowercase hex digits per byte.
hex_encode(bytes) ==
    Concat([i \in 1..Len(bytes) |->
        At(HexLower, (bytes[i] \div 16) + 1) \o At(HexLower, (bytes[i] % 16) + 1)])

RECURSIVE CollectParamsFirstWins(_, _, _)
\* The loop with the first pair of a key kept and the later ones dropped.
CollectParamsFirstWins(pairs, params, excluded) ==
    IF pairs = <<>> THEN params
    ELSE CollectParamsFirstWins(Tail(pairs),
             IF pairs[1][1] \in excluded \/ pairs[1][1] \in btree_keys(params) THEN params
             ELSE btree_insert(params, pairs[1][1], pairs[1][2]),
             excluded)

RECURSIVE CollectParams(_, _, _)
\* The loop that inserts every pair whose key is not excluded into the map,
\* in input order (a later pair overwrites an earlier one with the same key).
CollectParams(pairs, params, excluded) ==
    IF pairs = <<>> THEN params
    ELSE CollectParams(Tail(pairs),
             IF pairs[1][1] \in excluded THEN params
             ELSE btree_insert(params, pairs[1][1], pairs[1][2]),
             excluded)

\* The lines "key=value" of the map joined by a newline.
FormatLines(params) ==
    Join([i \in 1..Len(params) |-> params[i][1] \o "=" \o params[i][2]], "\n")

\* The data-check-string with the hash parameter kept.
data_check_string_keeping_hash(init_data) ==
    FormatLines(CollectParams(form_urlencoded_parse(init_data), <<>>, {}))

\* The data-check-string sign computes for init_data.
data_check_string(init_data) ==
    FormatLines(CollectParams(form_urlencoded_parse(init_data), <<>>, {"hash"}))

\* sign with the secret key derived from the label alone.
sign_fixed_secret(init_data, token) ==
    IF init_data = "" THEN Err("UnexpectedFormat", "init_data is empty")
    ELSE IF token = "" THEN Err("UnexpectedFormat", "token is empty")
    ELSE LET secret_key == HmacSha256(as_bytes("WebAppData"), as_bytes(""))
         IN  Ok(hex_encode(HmacSha256(secret_key, as_bytes(data_check_string(init_data)))))

\* sign without the test for the empty token.
sign_any_token(init_data, token) ==
    IF init_data = "" THEN Err("UnexpectedFormat", "init_data is empty")
    ELSE LET secret_key == HmacSha256(as_bytes("WebAppData"), as_bytes(token))
         IN  Ok(hex_encode(HmacSha256(secret_key, as_bytes(data_check_string(init_data)))))

sign(init_data, token) ==
    IF init_data = "" THEN Err("UnexpectedFormat", "init_data is empty")
    ELSE IF token = "" THEN Err("UnexpectedFormat", "token is empty")
    ELSE LET secret_key == HmacSha256(as_bytes("WebAppData"), as_bytes(token))
         IN  Ok(hex_encode(HmacSha256(secret_key, as_bytes(data_check_string(init_data)))))

(***************************************************************************)
(* parse.rs                                                                *)
(***************************************************************************)

STRING_PROPS == {"start_param"}

JsonWhitespace == {" ", "\n"}

\* The string without its leading JSON whitespace.
TrimLeft(s) ==
    LET solid == {i \in 1..Len(s) : At(s, i) \notin JsonWhitespace}
    IN  IF solid = {} THEN "" ELSE SubSeq(s, Min(solid), Len(s))

\* The string without its trailing JSON whitespace.
TrimRight(s) ==
    LET solid == {i \in 1..Len(s) : At(s, i) \notin JsonWhitespace}
    IN  IF solid = {} THEN "" ELSE SubSeq(s, 1, CHOOSE i \in solid : \A j \in solid : j <= i)

\* Index of the first character at or after i that is not a decimal digit
\* (Len(s) + 1 when there is none).
DigitRun(s, i) ==
    Min({j \in i..Len(s) : At(s, j) \notin DecDigits} \cup {IF i > Len(s) THEN i ELSE Len(s) + 1})

\* The digits of an exponent start at i3 and run to the end of s.
JsonExpDigits(s, i3) == DigitRun(s, i3) > i3 /\ DigitRun(s, i3) = Len(s) + 1

\* From position i2, s holds an exponent or nothing.
JsonExpOk(s, i2) ==
    IF i2 <= Len(s) /\ At(s, i2) \in {"e", "E"}
    THEN JsonExpDigits(s, IF i2 + 1 <= Len(s) /\ At(s, i2 + 1) \in {"+", "-"}
                          THEN i2 + 2 ELSE i2 + 1)
    ELSE i2 = Len(s) + 1

\* From position i1, s holds a fraction and then an exponent, either optional.
JsonFracOk(s, i1) ==
    IF i1 <= Len(s) /\ At(s, i1) = "."
    THEN DigitRun(s, i1 + 1) > i1 + 1 /\ JsonExpOk(s, DigitRun(s, i1 + 1))
    ELSE JsonExpOk(s, i1)

\* The integer part of s is s[i0..i1-1], and the rest is well-formed.
JsonIntOk(s, i0, i1) ==
    /\ i1 > i0
    /\ At(s, i0) = "0" => i1 = i0 + 1
    /\ JsonFracOk(s, i1)

\* The number of s starts at i0 (after the optional sign).
JsonIntFrom(s, i0) == JsonIntOk(s, i0, DigitRun(s, i0))

\* The JSON number grammar: -? (0 | [1-9][0-9]*) (. [0-9]+)? ([eE] [+-]? [0-9]+)?
IsJsonNumber(s) == JsonIntFrom(s, IF s # "" /\ Head(s) = "-" THEN 2 ELSE 1)

\* A JSON number that is a plain run of decimal digits (what the decoder
\* reads as an unsigned integer).
IsJsonUnsigned(s) == IsJsonNumber(s) /\ all_chars(s, DecDigits)

\* The trimmed text is a JSON value that holds no quote, bracket or brace.
IsJsonAtom(t) == t \in {"true", "false", "null"} \/ IsJsonNumber(t)

\* serde_json::from_str::<Value>(v).is_ok(), for values that hold no quote,
\* bracket or brace (so: a number or one of the literals, with optional
\* surrounding whitespace).
IsJsonValue(v) == IsJsonAtom(TrimRight(TrimLeft(v)))

\* The member parse writes for the map entry (k, v): the value unquoted when
\* it reads as JSON and the key is not one of STRING_PROPS, quoted with its
\* quotes escaped otherwise (every double quote of the value gets a
\* backslash in front). The key is written between quotes as it is.
json_pair(k, v) ==
    IF k \notin STRING_PROPS /\ IsJsonValue(v) THEN "\"" \o k \o "\":" \o v
    ELSE "\"" \o k \o "\":\""
             \o Concat([i \in 1..Len(v) |-> IF At(v, i) = "\"" THEN "\\\"" ELSE At(v, i)])
             \o "\""

\* The JSON text parse builds from the map: the members in key order,
\* joined by commas, between braces.
json_str(params) ==
    "{" \o Join([i \in 1..Len(params) |-> json_pair(params[i][1], params[i][2])], ",")
        \o "}"

\* The character a JSON escape stands for (the escapes whose character is
\* in the alphabet of the model).
JsonEscapes == [c \in {"\"", "\\", "/", "n"} |-> IF c = "n" THEN "\n" ELSE c]

RECURSIVE JsonUnescape(_)
RECURSIVE JsonUnescapeAt(_, _)
\* The body of a JSON string from its first backslash at p on: the escape
\* is replaced by its character, an unknown escape is an error.
JsonUnescapeAt(b, p) ==
    IF p > Len(b) THEN Some(b)
    ELSE IF p = Len(b) \/ At(b, p + 1) \notin DOMAIN JsonEscapes THEN None
    ELSE IF JsonUnescape(SubSeq(b, p + 2, Len(b))) = None THEN None
    ELSE Some(SubSeq(b, 1, p - 1) \o JsonEscapes[At(b, p + 1)]
                  \o JsonUnescape(SubSeq(b, p + 2, Len(b)))[1])

\* The text a JSON string body stands for, or None when it is no string
\* body (a control character or an unknown escape in it).
JsonUnescape(b) ==
    IF \E i \in 1..Len(b) : Ord[At(b, i)] < 32 THEN None
    ELSE JsonUnescapeAt(b, Min({i \in 1..Len(b) : At(b, i) = "\\"} \cup {Len(b) + 1}))

\* Index of the first character at or after i that is not JSON whitespace
\* (Len(s) + 1 when there is none).
JsonSkip(s, i) ==
    Min({j \in i..Len(s) : At(s, j) \notin JsonWhitespace} \cup {Len(s) + 1})

\* The characters between the quote at i and position j end in an even
\* number of backslashes.
EvenBackslashes(s, i, j) ==
    (j - 1 - (CHOOSE k \in i..(j - 1) :
                  /\ At(s, k) # "\\"
                  /\ \A m \in (k + 1)..(j - 1) : At(s, m) = "\\")) % 2 = 0

\* Index of the quote that closes the string opened by the quote at i
\* (Len(s) + 1 when the string is not closed).
JsonStringEnd(s, i) ==
    Min({j \in (i + 1)..Len(s) : At(s, j) = "\"" /\ EvenBackslashes(s, i, j)}
            \cup {Len(s) + 1})

\* Index of the first character at or after i that ends a number or a
\* literal (Len(s) + 1 when there is none).
JsonAtomEnd(s, i) ==
    Min({j \in i..Len(s) : At(s, j) \in JsonWhitespace \cup {",", "}"}}
            \cup {Len(s) + 1})

\* What reading one member gives: the member as <<key, string value, raw,
\* text of the unquoted value>> and the position of what follows it.
JsonBad == [ok |-> FALSE, member |-> <<>>, next |-> 0]

JsonGood(m, n) == [ok |-> TRUE, member |-> m, next |-> n]

\* The member whose key is k and whose value is the string s[i..e].
JsonStringValue(s, k, i, e) ==
    IF e > Len(s) \/ JsonUnescape(SubSeq(s, i + 1, e - 1)) = None THEN JsonBad
    ELSE JsonGood(<<k, JsonUnescape(SubSeq(s, i + 1, e - 1))[1], FALSE, "">>,
                  JsonSkip(s, e + 1))

\* The member whose key is k and whose value is the number or literal
\* s[i..e-1] (the inputs spell no bracket and no brace).
JsonAtomValue(s, k, i, e) ==
    IF ~IsJsonAtom(SubSeq(s, i, e - 1)) THEN JsonBad
    ELSE JsonGood(<<k, "", TRUE, SubSeq(s, i, e - 1)>>, JsonSkip(s, e))

\* The member whose key is k and whose value starts at i.
JsonValueAt(s, k, i) ==
    IF i > Len(s) THEN JsonBad
    ELSE IF At(s, i) = "\"" THEN JsonStringValue(s, k, i, JsonStringEnd(s, i))
    ELSE JsonAtomValue(s, k, i, JsonAtomEnd(s, i))

\* The colon is expected at c, after the key k.
JsonColon(s, k, c) ==
    IF c > Len(s) \/ At(s, c) # ":" THEN JsonBad
    ELSE JsonValueAt(s, k, JsonSkip(s, c + 1))

\* The key is the string s[i..e].
JsonAfterKey(s, i, e) ==
    IF e > Len(s) \/ JsonUnescape(SubSeq(s, i + 1, e - 1)) = None THEN JsonBad
    ELSE JsonColon(s, JsonUnescape(SubSeq(s, i + 1, e - 1))[1], JsonSkip(s, e + 1))

\* The member that starts at i.
JsonMemberAt(s, i) ==
    IF i > Len(s) \/ At(s, i) # "\"" THEN JsonBad
    ELSE JsonAfterKey(s, i, JsonStringEnd(s, i))

RECURSIVE JsonMembersFrom(_, _, _)
RECURSIVE JsonMembersNext(_, _, _)
\* After the member m: a comma and the next member, or the closing brace
\* and nothing but whitespace.
JsonMembersNext(s, acc, m) ==
    IF ~m.ok \/ m.next > Len(s) THEN None
    ELSE IF At(s, m.next) = ","
         THEN JsonMembersFrom(s, JsonSkip(s, m.next + 1), Append(acc, m.member))
    ELSE IF At(s, m.next) = "}" /\ JsonSkip(s, m.next + 1) = Len(s) + 1
         THEN Some(Append(acc, m.member))
    ELSE None

\* The members of the object from position i on, behind those of acc.
JsonMembersFrom(s, i, acc) == JsonMembersNext(s, acc, JsonMemberAt(s, i))

\* The body of the object starts at i.
JsonObjectBody(s, i) ==
    IF i <= Len(s) /\ At(s, i) = "}"
    THEN IF JsonSkip(s, i + 1) = Len(s) + 1 THEN Some(<<>>) ELSE None
    ELSE JsonMembersFrom(s, i, <<>>)

\* The members of the JSON object the text spells, in the order of the
\* text, or None when the text is no JSON object.
JsonObject(s) ==
    IF JsonSkip(s, 1) > Len(s) \/ At(s, JsonSkip(s, 1)) # "{" THEN None
    ELSE JsonObjectBody(s, JsonSkip(s, JsonSkip(s, 1) + 1))

ChatTypes == {"sender", "private", "group", "supergroup", "channel"}

EmptyInitData ==
    [auth_date |-> None, hash |-> None, query_id |-> None, start_param |-> None,
     signature |-> None, chat_type |-> None]

\* The names of the fields of InitData.
InitDataFields ==
    {"auth_date", "can_send_after", "chat", "chat_type", "chat_instance", "hash",
     "query_id", "receiver", "start_param", "user", "signature"}

SerdeErr(msg) == Err("UnexpectedFormat", msg)

\* Deserialization of one member into the record under construction: the
\* typed fields of InitData that the inputs can spell (auth_date: u64,
\* hash: String, query_id / signature / start_param: Option<String>,
\* chat_type: Option<ChatType>); any other key is ignored. raw tells that
\* the value is a number or a literal, t is its text; v is a string value.
DeserializeTyped(rec, k, v, raw, t) ==
    IF k = "auth_date"
    THEN IF raw /\ IsJsonUnsigned(t) /\ ParseDec(t) <= U64Max
         THEN Ok([rec EXCEPT !.auth_date = Some(ParseDec(t))])
         ELSE SerdeErr("invalid type for auth_date")
    ELSE IF k = "hash"
         THEN IF ~raw THEN Ok([rec EXCEPT !.hash = Some(v)])
              ELSE SerdeErr("invalid type for hash")
    ELSE IF k \in {"query_id", "signature", "start_param"}
         THEN IF ~raw THEN Ok([rec EXCEPT ![k] = Some(v)])
              ELSE IF t = "null" THEN Ok(rec)
              ELSE SerdeErr("invalid type for " \o k)
    ELSE IF k = "chat_type"
         THEN IF ~raw /\ v \in ChatTypes THEN Ok([rec EXCEPT !.chat_type = Some(v)])
              ELSE IF raw /\ t = "null" THEN Ok(rec)
              ELSE SerdeErr("invalid value for chat_type")
    ELSE Ok(rec)

\* The member i of the object: a field of InitData that an earlier member
\* named already is an error, any other member is deserialized.
DeserializeEntry(rec, members, i) ==
    IF /\ members[i][1] \in InitDataFields
       /\ \E j \in 1..(i - 1) : members[j][1] = members[i][1]
    THEN SerdeErr("duplicate field " \o members[i][1])
    ELSE DeserializeTyped(rec, members[i][1], members[i][2], members[i][3],
                          members[i][4])

RECURSIVE DeserializeFrom(_, _, _)
RECURSIVE DeserializeRest(_, _, _)
\* The members after one that gave r: read on after a success, stop at an error.
DeserializeRest(members, i, r) ==
    IF IsOk(r) THEN DeserializeFrom(members, i, r.val) ELSE r

DeserializeFrom(members, i, rec) ==
    IF i > Len(members) THEN Ok(rec)
    ELSE DeserializeRest(members, i + 1, DeserializeEntry(rec, members, i))

\* The required fields auth_date and hash are demanded of the members read.
RequireFields(r) ==
    IF ~IsOk(r) THEN r
    ELSE IF r.val.auth_date = None THEN SerdeErr("missing field auth_date")
    ELSE IF r.val.hash = None THEN SerdeErr("missing field hash")
    ELSE Ok([r.val EXCEPT !.auth_date = r.val.auth_date[1], !.hash = r.val.hash[1]])

\* The members of the text are read in the order of the text, then the
\* required fields are demanded; a text that is no JSON object is an error.
DeserializeObject(members) ==
    IF members = None THEN SerdeErr("syntax")
    ELSE RequireFields(DeserializeFrom(members[1], 1, EmptyInitData))

\* serde_json::from_str::<InitData> on the JSON text parse builds from the map.
DeserializeInitData(params) == DeserializeObject(JsonObject(json_str(params)))

\* The map with the first occurrence of each key in place of the last.
parse_params_first_wins(init_data) ==
    CollectParamsFirstWins(form_urlencoded_parse(init_data), <<>>, {})

\* The map parse collects the pairs of the input into: every key, with
\* the value of its last occurrence.
parse_params(init_data) == CollectParams(form_urlencoded_parse(init_data), <<>>, {})

parse(init_data) ==
    IF init_data = "" THEN Err("UnexpectedFormat", "init_data is empty")
    ELSE IF contains(init_data, ";") \/ ~contains(init_data, "=")
         THEN Err("UnexpectedFormat", "Invalid query string format")
    ELSE DeserializeInitData(parse_params(init_data))

(***************************************************************************)
(* validation.rs                                                           *)
(***************************************************************************)

DEFAULT_EXPIRATION == 86400

HashLen == 64

\* The format test of the hash part with its two conditions joined by "and".
CheckHashFormatBoth(base_data, hash) ==
    IF ~all_chars(hash, HexDigits) /\ Len(hash) # HashLen THEN Err("HashInvalid", "")
    ELSE Ok([base_data |-> base_data, hash |-> hash])

\* The format test of the hash part and the pair returned.
CheckHashFormat(base_data, hash) ==
    IF ~all_chars(hash, HexDigits) \/ Len(hash) # HashLen THEN Err("HashInvalid", "")
    ELSE Ok([base_data |-> base_data, hash |-> hash])

\* The split with the 64 characters behind the marker taken as the hash and
\* what follows them ignored.
SplitAtMarkerTokenOnly(init_data, pos) ==
    IF pos = 0 THEN Err("HashMissing", "")
    ELSE CheckHashFormat(SubSeq(init_data, 1, pos - 1),
                         SubSeq(init_data, pos + 6,
                                IF Len(init_data) < pos + 5 + HashLen THEN Len(init_data)
                                ELSE pos + 5 + HashLen))

\* The split of init_data at pos, the position of the marker (0: not found).
SplitAtMarker(init_data, pos) ==
    IF pos = 0 THEN Err("HashMissing", "")
    ELSE CheckHashFormat(SubSeq(init_data, 1, pos - 1),
                         SubSeq(init_data, pos + 6, Len(init_data)))

extract_hash(init_data) == SplitAtMarker(init_data, find(init_data, "&hash="))

\* The expiry test with the comparison turned round.
ExpiredBefore(data, sum, now) ==
    IF sum.panic THEN Panic
    ELSE IF sum.val > now THEN Err("Expired", "")
    ELSE Ok(data)

\* The comparison of auth_date + e with the clock, for a window e > 0.
ExpiredAfter(data, sum, now) ==
    IF sum.panic THEN Panic
    ELSE IF sum.val < now THEN Err("Expired", "")
    ELSE Ok(data)

\* The expiry step of a decoded record under the effective window e.
CheckWindow(data, e, now, overflow_checks) ==
    IF e > 0 THEN ExpiredAfter(data, u64_add(data.auth_date, e, overflow_checks), now)
    ELSE Ok(data)

\* The expiry step shared by validate and the dual-token validator: the
\* result for a decoded record.
check_expiry(data, expires_in, now, overflow_checks) ==
    CheckWindow(data, unwrap_or(expires_in, DEFAULT_EXPIRATION), now, overflow_checks)

\* The end of both validators: the decoder's error, or the expiry step on
\* the decoded record.
DecodedThenExpiry(data, expires_in, now, overflow_checks) ==
    IF ~IsOk(data) THEN data
    ELSE check_expiry(data.val, expires_in, now, overflow_checks)

\* The digest step of validate without the comparison.
CompareDigestSkipped(init_data, hash, expected_hash, expires_in, now, overflow_checks) ==
    IF ~IsOk(expected_hash) THEN expected_hash
    ELSE DecodedThenExpiry(parse(init_data), expires_in, now, overflow_checks)

\* The digest step of validate: the error of sign, the comparison of the
\* extracted digest with the expected one, then decoding and expiry.
CompareDigest(init_data, hash, expected_hash, expires_in, now, overflow_checks) ==
    IF ~IsOk(expected_hash) THEN expected_hash
    ELSE IF hash # expected_hash.val THEN Err("HashInvalid", "")
    ELSE DecodedThenExpiry(parse(init_data), expires_in, now, overflow_checks)

\* validate with the decoder consulted before the digests are compared.
ValidateExtractedDecodeFirst(init_data, token, ex, expires_in, now, overflow_checks) ==
    IF ~IsOk(ex) THEN ex
    ELSE IF ~IsOk(parse(init_data)) THEN parse(init_data)
    ELSE CompareDigest(init_data, ex.val.hash, sign(ex.val.base_data, token),
                       expires_in, now, overflow_checks)

\* validate after the extraction gave ex.
ValidateExtracted(init_data, token, ex, expires_in, now, overflow_checks) ==
    IF ~IsOk(ex) THEN ex
    ELSE CompareDigest(init_data, ex.val.hash, sign(ex.val.base_data, token),
                       expires_in, now, overflow_checks)

validate(init_data, token, expires_in, now, overflow_checks) ==
    IF init_data = "" \/ ~contains(init_data, "=")
    THEN Err("UnexpectedFormat", "init_data is empty or malformed")
    ELSE ValidateExtracted(init_data, token, extract_hash(init_data),
                           expires_in, now, overflow_checks)

\* The digest step of the dual-token validator comparing under the first
\* token only.
CompareDigestsFirstOnly(init_data, hash, expected_hash, expected_third_party_hash, expires_in, now, overflow_checks) ==
    IF ~IsOk(expected_hash) THEN expected_hash
    ELSE IF ~IsOk(expected_third_party_hash) THEN expected_third_party_hash
    ELSE IF hash # expected_hash.val THEN Err("HashInvalid", "")
    ELSE DecodedThenExpiry(parse(init_data), expires_in, now, overflow_checks)

\* The digest step of the dual-token validator: the error of either sign,
\* the comparison with both expected digests, then decoding and expiry.
CompareDigests(init_data, hash, expected_hash, expected_third_party_hash, expires_in, now, overflow_checks) ==
    IF ~IsOk(expected_hash) THEN expected_hash
    ELSE IF ~IsOk(expected_third_party_hash) THEN expected_third_party_hash
    ELSE IF hash # expected_hash.val /\ hash # expected_third_party_hash.val
         THEN Err("HashInvalid", "")
    ELSE DecodedThenExpiry(parse(init_data), expires_in, now, overflow_checks)

\* The dual-token validator after the extraction gave ex.
ValidateThirdPartyExtracted(init_data, token, third_party_token, ex, expires_in, now, overflow_checks) ==
    IF ~IsOk(ex) THEN ex
    ELSE CompareDigests(init_data, ex.val.hash, sign(ex.val.base_data, token),
                        sign(ex.val.base_data, third_party_token),
                        expires_in, now, overflow_checks)

\* validation.rs validate_third_party: the dual-token validator.
validate_third_party(init_data, token, third_party_token, expires_in, now, overflow_checks) ==
    IF init_data = "" \/ ~contains(init_data, "=")
    THEN Err("UnexpectedFormat", "init_data is empty or malformed")
    ELSE ValidateThirdPartyExtracted(init_data, token, third_party_token,
                                     extract_hash(init_data), expires_in, now,
                                     overflow_checks)

(***************************************************************************)
(* third_party_validation.rs                                               *)
(***************************************************************************)

TEST_PUBLIC_KEY == "40055058a4ee38156a06562e52eece92a771bcd8346a8c4615cb7376eddf72ec"

PROD_PUBLIC_KEY == "e7bf03a2fa4602af4580703d88dda5bb59f32ed8b02a56c187fe7d34caed242d"

\* Byte length of an Ed25519 signature (Signature::from_slice accepts no other).
SignatureLen == 64

Base64UrlAlphabet == "ABCDEFGHIJKLMNOPQRSTUVWXYZabcdefghijklmnopqrstuvwxyz0123456789-_"

Base64UrlVal ==
    [c \in {At(Base64UrlAlphabet, i) : i \in 1..64} |->
        (CHOOSE i \in 1..64 : At(Base64UrlAlphabet, i) = c) - 1]

\* URL_SAFE_NO_PAD.encode
base64_encode(bytes) ==
    LET n == Len(bytes)
        byte(i) == IF i <= n THEN bytes[i] ELSE 0
        sextet(k) ==
            LET g == (k - 1) \div 4
                r == (k - 1) % 4
                b1 == byte(3 * g + 1)
                b2 == byte(3 * g + 2)
                b3 == byte(3 * g + 3)
            IN  IF r = 0 THEN b1 \div 4
                ELSE IF r = 1 THEN (b1 % 4) * 16 + (b2 \div 16)
                ELSE IF r = 2 THEN (b2 % 16) * 4 + (b3 \div 64)
                ELSE b3 % 64
    IN  Concat([k \in 1..((n * 8 + 5) \div 6) |-> At(Base64UrlAlphabet, sextet(k) + 1)])

\* URL_SAFE_NO_PAD.decode: fails on a character outside the alphabet (the
\* padding character included), on a length of 1 modulo 4 and on non-zero
\* trailing bits.
base64_decode(s) ==
    LET n == Len(s)
        val(k) == Base64UrlVal[At(s, k)]
        byte(j) ==
            LET g == (j - 1) \div 3
                r == (j - 1) % 3
            IN  IF r = 0 THEN val(4 * g + 1) * 4 + (val(4 * g + 2) \div 16)
                ELSE IF r = 1 THEN (val(4 * g + 2) % 16) * 16 + (val(4 * g + 3) \div 4)
                ELSE (val(4 * g + 3) % 4) * 64 + val(4 * g + 4)
    IN  IF \E k \in 1..n : At(s, k) \notin DOMAIN Base64UrlVal THEN Err("DecodeError", "InvalidByte")
        ELSE IF n % 4 = 1 THEN Err("DecodeError", "InvalidLength")
        ELSE IF n % 4 = 2 /\ val(n) % 16 # 0 THEN Err("DecodeError", "InvalidLastSymbol")
        ELSE IF n % 4 = 3 /\ val(n) % 4 # 0 THEN Err("DecodeError", "InvalidLastSymbol")
        ELSE Ok([j \in 1..((n * 6) \div 8) |-> byte(j)])

\* Stand-in for the Ed25519 signature that the holder of the private key of
\* public_key issues over message: a keyed function of the key and the
\* message with a 64-byte output.
Ed25519Sign(public_key, message) ==
    HmacSha256(as_bytes(public_key), message)
        \o HmacSha256(as_bytes("R" \o public_key), message)

\* VerifyingKey::verify: the signature is the one issued over the message
\* under the key.
ed25519_verify(public_key, message, signature) ==
    signature = Ed25519Sign(public_key, message)

\* u64::from_str: an optional '+' and then decimal digits only, in range.
u64_from_str(v) ==
    LET d == IF v # "" /\ Head(v) = "+" THEN Tail(v) ELSE v
    IN  IF d # "" /\ all_chars(d, DecDigits) /\ ParseDec(d) <= U64Max
        THEN Some(ParseDec(d)) ELSE None

\* i64::to_string
i64_to_string(n) == IF n < 0 THEN "-" \o ToDec(0 - n) ELSE ToDec(n)

RECURSIVE FilterPairs(_, _)
\* The loop over the pairs: the last signature value, the parse of the last
\* auth_date value and the pairs kept for the message, in input order.
FilterPairs(pairs, acc) ==
    IF pairs = <<>> THEN acc
    ELSE LET k == pairs[1][1]
             v == pairs[1][2]
         IN  FilterPairs(Tail(pairs),
                 IF k = "signature" THEN [acc EXCEPT !.signature_b64 = Some(v)]
                 ELSE IF k = "auth_date"
                      THEN [acc EXCEPT !.auth_date = u64_from_str(v),
                                       !.filtered_pairs = Append(@, pairs[1])]
                 ELSE IF k # "hash"
                      THEN [acc EXCEPT !.filtered_pairs = Append(@, pairs[1])]
                 ELSE acc)

RECURSIVE StableInsert(_, _)
StableInsert(sorted, p) ==
    IF sorted = <<>> THEN <<p>>
    ELSE IF StrLess(p[1], sorted[1][1]) THEN <<p>> \o sorted
    ELSE <<sorted[1]>> \o StableInsert(Tail(sorted), p)

RECURSIVE sort_by_key(_, _)
\* Vec::sort_by on the keys: a stable sort (pairs with equal keys keep their
\* input order).
sort_by_key(pairs, sorted) ==
    IF pairs = <<>> THEN sorted
    ELSE sort_by_key(Tail(pairs), StableInsert(sorted, pairs[1]))

\* The pairs of init_data as the loop of the validator files them.
Filtered(init_data) ==
    FilterPairs(form_urlencoded_parse(init_data),
                [signature_b64 |-> None, auth_date |-> None, filtered_pairs |-> <<>>])

\* The message over the pairs kept: the bot id line and the sorted lines.
MessageOf(bot_id, filtered_pairs) ==
    i64_to_string(bot_id) \o ":WebAppData\n"
        \o FormatLines(sort_by_key(filtered_pairs, <<>>))

\* The message the signature is verified over.
verification_message(init_data, bot_id) ==
    MessageOf(bot_id, Filtered(init_data).filtered_pairs)

\* The key selection with the production key in either environment.
public_key_hex_prod(is_test) == PROD_PUBLIC_KEY

\* The key of the environment.
public_key_hex(is_test) == IF is_test THEN TEST_PUBLIC_KEY ELSE PROD_PUBLIC_KEY

\* The steps after the expiry check: decoding of the signature, its length,
\* its verification over the message, then the decoder.
VerifySignature(init_data, message, signature_bytes, key) ==
    IF ~IsOk(signature_bytes)
    THEN Err("SignatureInvalid", "Failed to decode signature from base64")
    ELSE IF Len(signature_bytes.val) # SignatureLen
         THEN Err("SignatureInvalid", "Failed to parse signature")
    ELSE IF ~ed25519_verify(key, as_bytes(message), signature_bytes.val)
         THEN Err("SignatureInvalid", "Failed to verify signature")
    ELSE parse(init_data)

\* The steps on the filed pairs f with the expiry check ahead of the test
\* for the signature.
VerifyFilteredExpiryFirst(init_data, bot_id, expires_in, is_test, now, overflow_checks, f) ==
    IF expires_in # None /\ f.auth_date # None
       /\ u64_add(f.auth_date[1], expires_in[1], overflow_checks).panic
    THEN Panic
    ELSE IF expires_in # None /\ f.auth_date # None
            /\ u64_add(f.auth_date[1], expires_in[1], overflow_checks).val < now
         THEN Err("Expired", "")
    ELSE IF f.signature_b64 = None THEN Err("SignatureMissing", "")
    ELSE VerifySignature(init_data, MessageOf(bot_id, f.filtered_pairs),
                         base64_decode(f.signature_b64[1]), public_key_hex(is_test))

\* The steps on the filed pairs f: the signature must be present; with a
\* window and a readable auth_date the expiry check comes next; then the
\* signature is verified.
VerifyFiltered(init_data, bot_id, expires_in, is_test, now, overflow_checks, f) ==
    IF f.signature_b64 = None THEN Err("SignatureMissing", "")
    ELSE IF expires_in # None /\ f.auth_date # None
            /\ u64_add(f.auth_date[1], expires_in[1], overflow_checks).panic
         THEN Panic
    ELSE IF expires_in # None /\ f.auth_date # None
            /\ u64_add(f.auth_date[1], expires_in[1], overflow_checks).val < now
         THEN Err("Expired", "")
    ELSE VerifySignature(init_data, MessageOf(bot_id, f.filtered_pairs),
                         base64_decode(f.signature_b64[1]), public_key_hex(is_test))

validate_third_party_with_signature(init_data, bot_id, expires_in, is_test, now, overflow_checks) ==
    IF init_data = "" \/ ~contains(init_data, "=")
    THEN Err("UnexpectedFormat", "init_data is empty or malformed")
    ELSE VerifyFiltered(init_data, bot_id, expires_in, is_test, now, overflow_checks,
                        Filtered(init_data))

\* third_party_validation.rs validate_third_party: the asymmetric validator
\* against the production key.
third_party_validation_validate_third_party(init_data, bot_id, expires_in, now, overflow_checks) ==
    validate_third_party_with_signature(init_data, bot_id, expires_in, FALSE, now, overflow_checks)

(***************************************************************************)
(* The inputs of the calls                                                 *)
(***************************************************************************)

\* Largest number of parameters combined from ParamPool into one query string.
MaxParams == 2

ParamPool == <<"a=1", "a=2", "auth_date=1">>

\* The sequences of at most n distinct indices of ParamPool.
RECURSIVE Selections(_)
Selections(n) ==
    IF n = 0 THEN {<<>>}
    ELSE LET shorter == Selections(n - 1)
         IN  shorter \cup
                 {Append(sel, i) : sel \in {t \in shorter : Len(t) = n - 1},
                                   i \in 1..Len(ParamPool)}

PoolQueries ==
    {Join([i \in 1..Len(sel) |-> ParamPool[sel[i]]], "&") :
        sel \in {t \in Selections(MaxParams) :
                    \A i, j \in 1..Len(t) : i # j => t[i] # t[j]}}

\* Query strings with a feature no combination of ParamPool has.
SpecialQueries ==
    {"c", "a=1;&auth_date=1", "b=x+y&auth_date=1", "hash=ab&auth_date=1",
     "auth_date=1&hash", "query_id=q&auth_date=1", "query_id=7&auth_date=1",
     "auth_date=x", "auth_date=%2B1", "a=%31&auth_date=1",
     "a=1&auth_date=1&a=2", "auth_date=1&a=1&a=2",
     "auth_date=0", "a=1&auth_date=0", "auth_date=0&auth_date=1",
     "auth_date=" \o ToDec(U64Max), "auth_date=" \o ToDec(U64Max) \o "0",
     "x\":1,\"auth_date=1", "auth_date=5"}

\* The query strings before any authentication field is appended.
BaseQueries == PoolQueries \cup SpecialQueries

Tokens == {"", "T", "U"}

\* The (token, third_party_token) pairs of the dual-token calls.
TokenPairs == {<<"T", "U">>, <<"T", "">>, <<"", "U">>}

Windows == {None, Some(0), Some(1)}

ClockValues == {2, DEFAULT_EXPIRATION + 1}

\* The hex digits of a string in upper case.
to_ascii_uppercase(s) ==
    Concat([i \in 1..Len(s) |->
        IF Ord[At(s, i)] >= 97 /\ Ord[At(s, i)] <= 122 THEN Chr[Ord[At(s, i)] - 32]
        ELSE At(s, i)])

ZeroHash == "0000000000000000000000000000000000000000000000000000000000000000"

\* The digest of the data-check-string of b under the key derived from the
\* empty token (the two HMAC steps of sign, which sign refuses to take).
EmptyTokenDigest(b) ==
    hex_encode(HmacSha256(HmacSha256(as_bytes("WebAppData"), as_bytes("")),
                          as_bytes(data_check_string(b))))

\* First-party inputs whose hash field is absent or is no digest under a
\* token sign accepts.
UnsignedInputs ==
    {b \o sfx : b \in {"", "a=1", "auth_date=1"},
                sfx \in {"", "&hash", "&hash=", "&hash=abc", "&hash=" \o ZeroHash,
                         "&hash=" \o ZeroHash \o "0"}}
        \cup {"hash=" \o ZeroHash \o "&auth_date=1", "c"}
        \cup {"auth_date=1&hash=" \o EmptyTokenDigest("auth_date=1")}

\* First-party inputs that end in the marker and the digest of what precedes
\* it under a token: as issued, with the digest in upper case, and with a
\* further parameter behind the digest.
SignedInputs ==
    UNION {{b \o "&hash=" \o sign(b, "T").val,
            b \o "&hash=" \o sign(b, "U").val,
            b \o "&hash=" \o to_ascii_uppercase(sign(b, "T").val),
            b \o "&hash=" \o sign(b, "T").val \o "&a=1"} : b \in BaseQueries \ {""}}

RawInputs == UnsignedInputs \cup SignedInputs

\* An input of sign with a repeated key, a hash and a signature parameter.
CanonQueries == {"signature=s&b=2&hash=ab&b=1&auth_date=1"}

BotIds == {7, 8}

\* The signature issued under a key over the message of query string d for bot 7.
IssuedSignature(public_key, d) ==
    base64_encode(Ed25519Sign(public_key, as_bytes(verification_message(d, 7))))

\* Third-party inputs: a query string with a hash parameter, followed by
\* the signature issued under either key or by a value that is no
\* signature; and query strings with no signature or no hash parameter.
ThirdPartyInputs ==
    UNION {{b \o "&hash=ff",
            b \o "&signature=" \o IssuedSignature(PROD_PUBLIC_KEY, b),
            b \o "&hash=ff&signature=" \o IssuedSignature(PROD_PUBLIC_KEY, b),
            b \o "&hash=ff&signature=" \o IssuedSignature(TEST_PUBLIC_KEY, b),
            b \o "&hash=ff&signature=!!!",
            b \o "&hash=ff&signature=AAAA",
            b \o "&hash=ff&signature=" \o base64_encode([i \in 1..SignatureLen |-> 0])}
           : b \in PoolQueries \cup {"auth_date=0", "a=1;&auth_date=1", "auth_date=x",
                                     "auth_date=%2B1", "auth_date=" \o ToDec(U64Max)}}

(***************************************************************************)
(* The state: the clock, the build, and the call in progress                *)
(***************************************************************************)

VARIABLES
    now,              \* SystemTime::now() in seconds since the epoch
    overflow_checks,  \* the build aborts on arithmetic overflow (TRUE) or wraps
    op,               \* the function called last
    init_data,        \* its arguments ...
    token,
    third_party_token,
    expires_in,
    bot_id,
    is_test,
    result,           \* ... and what it returned
    earlier,          \* the call that returned last, as an observer of a sequence of
                      \* calls records it (the library itself keeps no such record)
    cursor_positions, \* the Vec behind CURSOR_POSITIONS
    write_guard,      \* the thread that holds the write lock of CURSOR_POSITIONS, 0 for none
    poisoned,         \* a thread has panicked while it held the write lock
    pc,               \* where each thread stands in its call of the cursor module
    position,         \* the position each thread works on (a local of its call)
    win_cursor        \* the cursor of window 0 of the editor, as <<line, column>>

\* The variables of the cursor module.
cvars == <<cursor_positions, write_guard, poisoned, pc, position, win_cursor>>

\* The variables of the calls of the init-data library.
lvars == <<now, overflow_checks, op, init_data, token, third_party_token, expires_in, bot_id, is_test, result, earlier>>

vars == <<lvars, cvars>>

\* Threads that call into the cursor module.
NumThreads == 2

Threads == 1..NumThreads

\* nvim_buf_line_count of the buffer.
LineCount == 2

\* The calls that can add a position are not started once the list and the
\* calls under way could hold more than MaxCursors positions.
MaxCursors == 3

\* The record of a call; NoCall before the first call has returned.
NoCall ==
    [op |-> "none", init_data |-> "", token |-> "", third_party_token |-> "",
     expires_in |-> None, bot_id |-> 0, is_test |-> FALSE, now |-> 0,
     result |-> Err("none", "")]

Init ==
    /\ now = Min(ClockValues)
    /\ overflow_checks \in BOOLEAN
    /\ op = "none"
    /\ init_data = ""
    /\ token = ""
    /\ third_party_token = ""
    /\ expires_in = None
    /\ bot_id = 0
    /\ is_test = FALSE
    /\ result = Err("none", "")
    /\ earlier = NoCall
    /\ cursor_positions = <<>>
    /\ write_guard = 0
    /\ poisoned = FALSE
    /\ pc = [t \in Threads |-> "idle"]
    /\ position = [t \in Threads |-> <<1, 0>>]
    /\ win_cursor = <<1, 0>>

\* The clock advances (between calls).
Tick ==
    /\ op = "none"
    /\ \E t \in ClockValues : t > now /\ now' = t
    /\ UNCHANGED <<overflow_checks, op, init_data, token, third_party_token, expires_in,
                   bot_id, is_test, result, earlier, cvars>>

Sign ==
    /\ op = "none"
    /\ \E d \in BaseQueries \cup RawInputs \cup CanonQueries \cup {""}, t \in Tokens :
        /\ op' = "sign"
        /\ init_data' = d
        /\ token' = t
        /\ result' = sign(d, t)
        /\ third_party_token' = ""
        /\ expires_in' = None
        /\ bot_id' = 0
        /\ is_test' = FALSE
        /\ UNCHANGED <<now, overflow_checks, earlier, cvars>>

ExtractHash ==
    /\ op = "none"
    /\ \E d \in RawInputs :
        /\ op' = "extract_hash"
        /\ init_data' = d
        /\ result' = extract_hash(d)
        /\ token' = ""
        /\ third_party_token' = ""
        /\ expires_in' = None
        /\ bot_id' = 0
        /\ is_test' = FALSE
        /\ UNCHANGED <<now, overflow_checks, earlier, cvars>>

Parse ==
    /\ op = "none"
    /\ \E d \in RawInputs \cup ThirdPartyInputs :
        /\ op' = "parse"
        /\ init_data' = d
        /\ result' = parse(d)
        /\ token' = ""
        /\ third_party_token' = ""
        /\ expires_in' = None
        /\ bot_id' = 0
        /\ is_test' = FALSE
        /\ UNCHANGED <<now, overflow_checks, earlier, cvars>>

Validate ==
    /\ op = "none"
    /\ \E d \in RawInputs, t \in Tokens, e \in Windows :
        /\ op' = "validate"
        /\ init_data' = d
        /\ token' = t
        /\ expires_in' = e
        /\ result' = validate(d, t, e, now, overflow_checks)
        /\ third_party_token' = ""
        /\ bot_id' = 0
        /\ is_test' = FALSE
        /\ UNCHANGED <<now, overflow_checks, earlier, cvars>>

ValidateThirdParty ==
    /\ op = "none"
    /\ \E d \in RawInputs, tt \in TokenPairs, e \in Windows :
        /\ op' = "validate_third_party"
        /\ init_data' = d
        /\ token' = tt[1]
        /\ third_party_token' = tt[2]
        /\ expires_in' = e
        /\ result' = validate_third_party(d, tt[1], tt[2], e, now, overflow_checks)
        /\ bot_id' = 0
        /\ is_test' = FALSE
        /\ UNCHANGED <<now, overflow_checks, earlier, cvars>>

ValidateThirdPartyWithSignature ==
    /\ op = "none"
    /\ \E d \in ThirdPartyInputs, b \in BotIds, e \in Windows, test \in BOOLEAN :
        /\ op' = "validate_third_party_with_signature"
        /\ init_data' = d
        /\ bot_id' = b
        /\ expires_in' = e
        /\ is_test' = test
        /\ result' = IF test
                     THEN validate_third_party_with_signature(d, b, e, TRUE, now,
                                                              overflow_checks)
                     ELSE third_party_validation_validate_third_party(d, b, e, now,
                                                                      overflow_checks)
        /\ token' = ""
        /\ third_party_token' = ""
        /\ UNCHANGED <<now, overflow_checks, earlier, cvars>>

\* The call returns to its caller; the library keeps nothing of it.
Return ==
    /\ op # "none"
    /\ op' = "none"
    /\ init_data' = ""
    /\ token' = ""
    /\ third_party_token' = ""
    /\ expires_in' = None
    /\ bot_id' = 0
    /\ is_test' = FALSE
    /\ result' = Err("none", "")
    /\ UNCHANGED <<now, overflow_checks, earlier, cvars>>

Next ==
    \/ Tick
    \/ Return
    \/ Sign
    \/ ExtractHash
    \/ Parse
    \/ Validate
    \/ ValidateThirdParty
    \/ ValidateThirdPartyWithSignature

Spec == Init /\ [][Next]_vars

(***************************************************************************)
(* Sequences of calls with the previous call on record                     *)
(***************************************************************************)

\* First-party inputs of the recorded sequences: one accepted under "T",
\* one with a digest of nothing.
ReplayInputs ==
    {"auth_date=1&hash=" \o sign("auth_date=1", "T").val,
     "a=1&hash=" \o ZeroHash}

\* Third-party inputs of the recorded sequences.
ReplayThirdPartyInputs ==
    {"auth_date=1&hash=ff&signature=" \o IssuedSignature(PROD_PUBLIC_KEY, "auth_date=1")}

ReplaySign ==
    /\ op = "none"
    /\ \E d \in ReplayInputs, t \in Tokens :
        /\ op' = "sign"
        /\ init_data' = d
        /\ token' = t
        /\ result' = sign(d, t)
        /\ third_party_token' = ""
        /\ expires_in' = None
        /\ bot_id' = 0
        /\ is_test' = FALSE
        /\ UNCHANGED <<now, overflow_checks, earlier, cvars>>

\* validate answering HashInvalid to an input it accepted in the call before.
ReplayValidateOnce ==
    /\ op = "none"
    /\ \E d \in ReplayInputs, t \in Tokens, e \in Windows :
        /\ op' = "validate"
        /\ init_data' = d
        /\ token' = t
        /\ expires_in' = e
        /\ result' = IF earlier.op = "validate" /\ earlier.init_data = d /\ IsOk(earlier.result)
                     THEN Err("HashInvalid", "")
                     ELSE validate(d, t, e, now, overflow_checks)
        /\ third_party_token' = ""
        /\ bot_id' = 0
        /\ is_test' = FALSE
        /\ UNCHANGED <<now, overflow_checks, earlier, cvars>>

ReplayValidate ==
    /\ op = "none"
    /\ \E d \in ReplayInputs, t \in Tokens, e \in Windows :
        /\ op' = "validate"
        /\ init_data' = d
        /\ token' = t
        /\ expires_in' = e
        /\ result' = validate(d, t, e, now, overflow_checks)
        /\ third_party_token' = ""
        /\ bot_id' = 0
        /\ is_test' = FALSE
        /\ UNCHANGED <<now, overflow_checks, earlier, cvars>>

ReplayValidateThirdParty ==
    /\ op = "none"
    /\ \E d \in ReplayInputs, tt \in TokenPairs, e \in Windows :
        /\ op' = "validate_third_party"
        /\ init_data' = d
        /\ token' = tt[1]
        /\ third_party_token' = tt[2]
        /\ expires_in' = e
        /\ result' = validate_third_party(d, tt[1], tt[2], e, now, overflow_checks)
        /\ bot_id' = 0
        /\ is_test' = FALSE
        /\ UNCHANGED <<now, overflow_checks, earlier, cvars>>

ReplayValidateThirdPartyWithSignature ==
    /\ op = "none"
    /\ \E d \in ReplayThirdPartyInputs, b \in BotIds, e \in Windows, test \in BOOLEAN :
        /\ op' = "validate_third_party_with_signature"
        /\ init_data' = d
        /\ bot_id' = b
        /\ expires_in' = e
        /\ is_test' = test
        /\ result' = validate_third_party_with_signature(d, b, e, test, now, overflow_checks)
        /\ token' = ""
        /\ third_party_token' = ""
        /\ UNCHANGED <<now, overflow_checks, earlier, cvars>>

\* The call returns; the observer puts it on record.
ReplayReturn ==
    /\ op # "none"
    /\ earlier' = [op |-> op, init_data |-> init_data, token |-> token,
                   third_party_token |-> third_party_token, expires_in |-> expires_in,
                   bot_id |-> bot_id, is_test |-> is_test, now |-> now,
                   result |-> result]
    /\ op' = "none"
    /\ init_data' = ""
    /\ token' = ""
    /\ third_party_token' = ""
    /\ expires_in' = None
    /\ bot_id' = 0
    /\ is_test' = FALSE
    /\ result' = Err("none", "")
    /\ UNCHANGED <<now, overflow_checks, cvars>>

ReplayNext ==
    \/ Tick
    \/ ReplayReturn
    \/ ReplaySign
    \/ ReplayValidate
    \/ ReplayValidateThirdParty
    \/ ReplayValidateThirdPartyWithSignature

SpecReplay == Init /\ [][ReplayNext]_vars

(***************************************************************************)
(* cursors.rs: the shared list of cursor positions                         *)
(***************************************************************************)

\* write.contains(&position)
contains_position(v, p) == \E i \in 1..Len(v) : v[i] = p

\* write.iter().position(|p| p == &position), for a position the Vec holds.
position_of(v, p) == Min({i \in 1..Len(v) : v[i] = p})

\* Vec::remove(index)
vec_remove(v, i) == SubSeq(v, 1, i - 1) \o SubSeq(v, i + 1, Len(v))

\* A call that may push is started only while the list has room for it
\* and for the calls under way that may still push.
RoomToPush ==
    Len(cursor_positions)
        + Cardinality({t \in Threads : pc[t] \in {"toggle_find", "toggle_push", "down_add"}})
        < MaxCursors

\* toggle_cursor_position, line 13: global().write().unwrap() waits for the
\* lock and panics when the lock is poisoned.
ToggleLock ==
    \E t \in Threads :
        /\ pc[t] = "idle"
        /\ RoomToPush
        /\ write_guard = 0
        /\ IF poisoned
           THEN pc' = [pc EXCEPT ![t] = "panicked"] /\ UNCHANGED write_guard
           ELSE pc' = [pc EXCEPT ![t] = "toggle_find"] /\ write_guard' = t
        /\ UNCHANGED <<cursor_positions, poisoned, position, win_cursor, lvars>>

\* toggle_cursor_position, lines 15-20: the current position is looked up
\* under the write lock; when the list holds it, it is removed and the
\* guard stays alive to the end of the function; when it does not, the
\* guard is dropped.
ToggleFind ==
    \E t \in Threads :
        /\ pc[t] = "toggle_find"
        /\ position' = [position EXCEPT ![t] = win_cursor]
        /\ IF contains_position(cursor_positions, win_cursor)
           THEN /\ cursor_positions' =
                       vec_remove(cursor_positions, position_of(cursor_positions, win_cursor))
                /\ pc' = [pc EXCEPT ![t] = "toggle_log"]
                /\ UNCHANGED write_guard
           ELSE /\ write_guard' = 0
                /\ pc' = [pc EXCEPT ![t] = "toggle_push"]
                /\ UNCHANGED cursor_positions
        /\ UNCHANGED <<poisoned, win_cursor, lvars>>

\* toggle_cursor_position, lines 21-23: the write lock is taken again, the
\* position is pushed, and the second guard ends with the block.
TogglePush ==
    \E t \in Threads :
        /\ pc[t] = "toggle_push"
        /\ write_guard = 0
        /\ IF poisoned
           THEN pc' = [pc EXCEPT ![t] = "panicked"] /\ UNCHANGED cursor_positions
           ELSE /\ cursor_positions' = Append(cursor_positions, position[t])
                /\ pc' = [pc EXCEPT ![t] = "toggle_log"]
        /\ UNCHANGED <<write_guard, poisoned, position, win_cursor, lvars>>

\* toggle_cursor_position, lines 27-32: get_cursors takes the read lock.
\* When the calling thread still holds the write lock, read() blocks for
\* ever or panics, as the platform has it; the panic unwinds through the
\* guard and poisons the lock. Otherwise the call waits for the lock, reads
\* the list and returns.
ToggleLog ==
    \E t \in Threads :
        /\ pc[t] = "toggle_log"
        /\ IF write_guard = t
           THEN \/ pc' = [pc EXCEPT ![t] = "blocked"] /\ UNCHANGED <<write_guard, poisoned>>
                \/ /\ pc' = [pc EXCEPT ![t] = "panicked"]
                   /\ write_guard' = 0
                   /\ poisoned' = TRUE
           ELSE /\ write_guard = 0
                /\ pc' = [pc EXCEPT ![t] = IF poisoned THEN "panicked" ELSE "idle"]
                /\ UNCHANGED <<write_guard, poisoned>>
        /\ UNCHANGED <<cursor_positions, position, win_cursor, lvars>>

\* The line move_cursor_down moves to.
line_below(line) == IF LineCount = line THEN line ELSE line + 1

\* move_cursor_down, lines 36-46: the cursor of the window moves one line
\* down, or stays on the last line.
MoveCursorDown ==
    \E t \in Threads :
        /\ pc[t] = "idle"
        /\ RoomToPush
        /\ win_cursor' = <<line_below(win_cursor[1]), win_cursor[2]>>
        /\ position' = [position EXCEPT ![t] = <<line_below(win_cursor[1]), win_cursor[2]>>]
        /\ pc' = [pc EXCEPT ![t] = "down_add"]
        /\ UNCHANGED <<cursor_positions, write_guard, poisoned, lvars>>

\* add_cursor (called at line 48): under the write lock, the position is
\* pushed unless the list holds it.
AddCursor ==
    \E t \in Threads :
        /\ pc[t] = "down_add"
        /\ write_guard = 0
        /\ IF poisoned
           THEN pc' = [pc EXCEPT ![t] = "panicked"] /\ UNCHANGED cursor_positions
           ELSE /\ cursor_positions' =
                       IF contains_position(cursor_positions, position[t])
                       THEN cursor_positions
                       ELSE Append(cursor_positions, position[t])
                /\ pc' = [pc EXCEPT ![t] = "down_log"]
        /\ UNCHANGED <<write_guard, poisoned, position, win_cursor, lvars>>

\* get_cursors (called at line 54): the list is read under the read lock,
\* and move_cursor_down returns.
GetCursors ==
    \E t \in Threads :
        /\ pc[t] = "down_log"
        /\ write_guard = 0
        /\ pc' = [pc EXCEPT ![t] = IF poisoned THEN "panicked" ELSE "idle"]
        /\ UNCHANGED <<cursor_positions, write_guard, poisoned, position, win_cursor, lvars>>

\* The line move_cursor_up moves to.
line_above(line) == IF line = 1 THEN 1 ELSE line - 1

\* move_cursor_up, lines 61-65: the cursor of the window moves one line up,
\* or stays on the first line; the position left is the one to remove.
MoveCursorUp ==
    \E t \in Threads :
        /\ pc[t] = "idle"
        /\ win_cursor' = <<line_above(win_cursor[1]), win_cursor[2]>>
        /\ position' = [position EXCEPT ![t] = <<win_cursor[1], win_cursor[2]>>]
        /\ pc' = [pc EXCEPT ![t] = "up_remove"]
        /\ UNCHANGED <<cursor_positions, write_guard, poisoned, lvars>>

\* remove_cursor (called at line 67): under the write lock, the first
\* occurrence of the position is removed, and move_cursor_up returns.
RemoveCursor ==
    \E t \in Threads :
        /\ pc[t] = "up_remove"
        /\ write_guard = 0
        /\ IF poisoned
           THEN pc' = [pc EXCEPT ![t] = "panicked"] /\ UNCHANGED cursor_positions
           ELSE /\ cursor_positions' =
                       IF contains_position(cursor_positions, position[t])
                       THEN vec_remove(cursor_positions,
                                       position_of(cursor_positions, position[t]))
                       ELSE cursor_positions
                /\ pc' = [pc EXCEPT ![t] = "idle"]
        /\ UNCHANGED <<write_guard, poisoned, position, win_cursor, lvars>>

CursorsNext ==
    \/ ToggleLock
    \/ ToggleFind
    \/ TogglePush
    \/ ToggleLog
    \/ MoveCursorDown
    \/ AddCursor
    \/ GetCursors
    \/ MoveCursorUp
    \/ RemoveCursor

\* The calls of the cursor module, made from any number of threads at once.
SpecCursors == Init /\ [][CursorsNext]_vars

(***************************************************************************)
(* Vocabulary of the properties                                            *)
(***************************************************************************)

\* The positions at which the literal marker "&hash=" starts in d.
MarkerPositions(d) == {i \in 1..(Len(d) - 5) : SubSeq(d, i, i + 5) = "&hash="}

HasMarker(d) == MarkerPositions(d) # {}

\* The text before and after the first marker of d.
BeforeMarker(d) == SubSeq(d, 1, Min(MarkerPositions(d)) - 1)

AfterMarker(d) == SubSeq(d, Min(MarkerPositions(d)) + 6, Len(d))

\* s is exactly 64 ASCII hex digits.
IsHexToken(s) ==
    /\ Len(s) = 64
    /\ \A i \in 1..Len(s) : At(s, i) \in HexDigits

(***************************************************************************)
(* Soundness of validate                                                   *)
(***************************************************************************)

\* C1: validate returns Ok only if the input contains the marker "&hash=",
\* the text after the first marker is a 64-character hex token, and that
\* token equals sign(text before the marker, token); in every other case the
\* call yields no record.
C1_Soundness ==
    (op = "validate" /\ IsOk(result)) =>
        /\ HasMarker(init_data)
        /\ IsHexToken(AfterMarker(init_data))
        /\ sign(BeforeMarker(init_data), token) = Ok(AfterMarker(init_data))

\* A call of validate that returned a record.
C1_Witness == op = "validate" /\ IsOk(result) /\ expires_in = Some(1)

(***************************************************************************)
(* Classification by extract_hash                                          *)
(***************************************************************************)

\* C6: extract_hash returns HashMissing exactly when the raw string does not
\* contain "&hash="; when it does, HashInvalid if the text after the first
\* occurrence is not exactly 64 hex digits, and otherwise the pair (text
\* before the marker, text after the marker).
C6_ExtractHashClassification ==
    op = "extract_hash" =>
        /\ IsErr(result, "HashMissing") <=> ~HasMarker(init_data)
        /\ HasMarker(init_data) =>
              IF IsHexToken(AfterMarker(init_data))
              THEN result = Ok([base_data |-> BeforeMarker(init_data),
                                hash |-> AfterMarker(init_data)])
              ELSE IsErr(result, "HashInvalid")

\* An extraction from a string whose marker is followed by hex digits of the
\* wrong length.
C6_Witness ==
    /\ op = "extract_hash"
    /\ HasMarker(init_data)
    /\ AfterMarker(init_data) # ""
    /\ Len(AfterMarker(init_data)) # 64
    /\ \A i \in 1..Len(AfterMarker(init_data)) : At(AfterMarker(init_data), i) \in HexDigits
    /\ IsErr(result, "HashInvalid")

(***************************************************************************)
(* Round trip through sign and validate                                    *)
(***************************************************************************)

\* Some pair of the sequence has the key k.
PairsHave(pairs, k) == \E i \in DOMAIN pairs : pairs[i][1] = k

\* The value of the last pair with the key k.
LastOf(pairs, k) ==
    pairs[CHOOSE i \in DOMAIN pairs :
              pairs[i][1] = k /\ \A j \in DOMAIN pairs : pairs[j][1] = k => j <= i][2]

\* The query string P has a parameter named k.
HasParam(P, k) == PairsHave(form_urlencoded_parse(P), k)

\* An optional field of the record as the pairs give it.
OptionalField(pairs, k) == IF PairsHave(pairs, k) THEN Some(LastOf(pairs, k)) ELSE None

\* s is an unsigned decimal integer of the u64 range, written without sign,
\* space or leading zero.
IsUnsignedDecimal(s) ==
    /\ s # ""
    /\ \A i \in 1..Len(s) : At(s, i) \in DecDigits
    /\ Len(s) > 1 => At(s, 1) # "0"
    /\ ParseDec(s) <= U64Max

\* The fields of the record are those of the pairs (the last occurrence of
\* each key), with the digest as its hash.
FieldsMatch(rec, pairs, digest) ==
    /\ PairsHave(pairs, "auth_date")
    /\ rec.auth_date = ParseDec(LastOf(pairs, "auth_date"))
    /\ rec.hash = digest
    /\ rec.query_id = OptionalField(pairs, "query_id")
    /\ rec.start_param = OptionalField(pairs, "start_param")
    /\ rec.chat_type = OptionalField(pairs, "chat_type")
    /\ rec.signature = None

\* The keys InitData gives a type to.
TypedKeys ==
    {"auth_date", "can_send_after", "chat", "chat_type", "chat_instance", "hash",
     "query_id", "receiver", "start_param", "user", "signature"}

\* A parameter set the decoder accepts for certain: no semicolon in the
\* string, an unsigned decimal auth_date, and besides it only keys the
\* record gives no type to.
PlainParameterSet(P, pairs) ==
    /\ ~contains(P, ";")
    /\ PairsHave(pairs, "auth_date")
    /\ IsUnsignedDecimal(LastOf(pairs, "auth_date"))
    /\ \A i \in DOMAIN pairs : pairs[i][1] = "auth_date" \/ pairs[i][1] \notin TypedKeys

\* d is P + "&hash=" + sign(P, t) for a non-empty parameter set P of
\* BaseQueries that has no hash and no signature parameter.
IsRoundTrip(d, t) ==
    /\ t # ""
    /\ HasMarker(d)
    /\ BeforeMarker(d) \in BaseQueries \ {""}
    /\ ~HasParam(BeforeMarker(d), "hash")
    /\ ~HasParam(BeforeMarker(d), "signature")
    /\ sign(BeforeMarker(d), t) = Ok(AfterMarker(d))

\* The state after validate(P + "&hash=" + sign(P, T), T, 0).
RoundTripCall == op = "validate" /\ expires_in = Some(0) /\ IsRoundTrip(init_data, token)

PlainText(pairs) ==
    \A i \in DOMAIN pairs : \A n \in 1..2 : \A j \in 1..Len(pairs[i][n]) :
        Ord[At(pairs[i][n], j)] >= 32 /\ At(pairs[i][n], j) \notin {"\"", "\\"}

\* What the round trip of a parameter set of plain text returns: a record
\* whose fields match P (the last occurrence of each key); the record
\* whenever P is a plain parameter set, and UnexpectedFormat whenever P has
\* no auth_date parameter.
PlainRoundTrip(P, digest, r) ==
    /\ IsOk(r) => FieldsMatch(r.val, form_urlencoded_parse(P), digest)
    /\ (PlainParameterSet(P, form_urlencoded_parse(P)) /\ ~IsJsonValue(digest)) => IsOk(r)
    /\ ~HasParam(P, "auth_date") => IsErr(r, "UnexpectedFormat")

Occurrences(pairs, p) == Cardinality({i \in DOMAIN pairs : pairs[i] = p})

\* Two sequences of pairs hold the same multiset of pairs.
SameMultiset(p, q) ==
    /\ Len(p) = Len(q)
    /\ \A i \in DOMAIN p : Occurrences(p, p[i]) = Occurrences(q, p[i])

\* In both sequences the last occurrence of every key has the same value.
SameLastValues(p, q) ==
    \A i \in DOMAIN p : PairsHave(q, p[i][1]) /\ LastOf(p, p[i][1]) = LastOf(q, p[i][1])

\* C3 as stated: sign(P1, T) = sign(P2, T) whenever P1 and P2 express the
\* same multiset of key=value parameters in a different physical order,
\* also when a key occurs more than once.
C3_OrderInvariance ==
    (op = "sign" /\ IsOk(result)) =>
        \A Q \in BaseQueries :
            SameMultiset(form_urlencoded_parse(init_data), form_urlencoded_parse(Q))
                => sign(Q, token) = result

\* C3 as amended: sign(P1, T) = sign(P2, T) whenever P1 and P2 express the
\* same multiset of parameters and the last occurrence of every repeated key
\* carries the same value in both.
C3_OrderInvarianceLastWins ==
    (op = "sign" /\ IsOk(result)) =>
        \A Q \in BaseQueries :
            (/\ SameMultiset(form_urlencoded_parse(init_data), form_urlencoded_parse(Q))
             /\ SameLastValues(form_urlencoded_parse(init_data), form_urlencoded_parse(Q)))
                => sign(Q, token) = result

\* A digest of a string with a repeated key that has a reordering with the
\* same last occurrences.
C3_Witness ==
    /\ op = "sign"
    /\ IsOk(result)
    /\ init_data = "a=1&auth_date=1&a=2"
    /\ \E Q \in BaseQueries :
          /\ Q # init_data
          /\ SameMultiset(form_urlencoded_parse(init_data), form_urlencoded_parse(Q))
          /\ SameLastValues(form_urlencoded_parse(init_data), form_urlencoded_parse(Q))

(***************************************************************************)
(* Tamper sensitivity of validate                                          *)
(***************************************************************************)

\* s with its i-th character replaced by c.
ReplaceAt(s, i, c) == SubSeq(s, 1, i - 1) \o c \o SubSeq(s, i + 1, Len(s))

\* The characters written over a character of a field or of the token.
TamperChars == {" ", "2", "z", ";"}

\* The positions of P inside a key or a value.
FieldPositions(P) == {i \in 1..Len(P) : At(P, i) \notin {"&", "="}}

\* The inputs that differ from d in one character of a field before the
\* marker.
Tampered(d) ==
    {ReplaceAt(d, i, c) : i \in FieldPositions(BeforeMarker(d)), c \in TamperChars} \ {d}

\* The tokens that differ from t in one character.
TamperedTokens(t) ==
    {ReplaceAt(t, i, c) : i \in 1..Len(t), c \in TamperChars \cup {"T", "U"}} \ {t}

\* The change from d to x alters the data-check-string of the text before
\* the marker of d, or makes a marker inside that text.
AltersSignedData(d, x) ==
    \/ data_check_string(SubSeq(x, 1, Len(BeforeMarker(d))))
           # data_check_string(BeforeMarker(d))
    \/ HasMarker(SubSeq(x, 1, Len(BeforeMarker(d))))

\* C4 as stated: from an accepted input, changing any single character
\* inside any non-auth field, or any single character of the token, makes
\* validate return HashInvalid.
C4_TamperSensitivity ==
    (op = "validate" /\ IsOk(result)) =>
        /\ \A x \in Tampered(init_data) :
              IsErr(validate(x, token, expires_in, now, overflow_checks), "HashInvalid")
        /\ \A t \in TamperedTokens(token) :
              IsErr(validate(init_data, t, expires_in, now, overflow_checks), "HashInvalid")

\* C4 as amended: from an accepted input, a change of one character of a
\* field makes validate return HashInvalid exactly when it alters the
\* data-check-string of the text before the marker (or makes a marker in
\* it); a change of one character of the token always does.
C4_TamperSensitivityOfSignedData ==
    (op = "validate" /\ IsOk(result)) =>
        /\ \A x \in Tampered(init_data) :
              IsErr(validate(x, token, expires_in, now, overflow_checks), "HashInvalid")
                  <=> AltersSignedData(init_data, x)
        /\ \A t \in TamperedTokens(token) :
              IsErr(validate(init_data, t, expires_in, now, overflow_checks), "HashInvalid")

\* An accepted input with a change that alters the signed data and one that
\* does not.
C4_Witness ==
    /\ op = "validate"
    /\ IsOk(result)
    /\ \E x \in Tampered(init_data) : AltersSignedData(init_data, x)
    /\ \E x \in Tampered(init_data) : ~AltersSignedData(init_data, x)

(***************************************************************************)
(* Expiry rule of validate                                                 *)
(***************************************************************************)

\* The digest of d matches under the token t and d decodes.
Authentic(d, t) ==
    /\ HasMarker(d)
    /\ IsHexToken(AfterMarker(d))
    /\ sign(BeforeMarker(d), t) = Ok(AfterMarker(d))
    /\ IsOk(parse(d))

\* The window in effect: the one passed, or 86400 when none is.
EffectiveWindow(e) == IF e = None THEN 86400 ELSE e[1]

\* C5: for an input whose digest matches and which decodes, validate returns
\* Expired exactly when the effective window w is positive and
\* auth_date + w < now, and accepts the input otherwise.
C5_ExpiryRule ==
    (op = "validate" /\ Authentic(init_data, token)) =>
        IF /\ EffectiveWindow(expires_in) > 0
           /\ parse(init_data).val.auth_date + EffectiveWindow(expires_in) < now
        THEN IsErr(result, "Expired")
        ELSE IsOk(result)

(***************************************************************************)
(* The dual-token validator                                                *)
(***************************************************************************)

\* The hash of d is well formed and is the digest of the text before it
\* under neither token.
MatchesNeither(d, t1, t2) ==
    /\ HasMarker(d)
    /\ IsHexToken(AfterMarker(d))
    /\ sign(BeforeMarker(d), t1) # Ok(AfterMarker(d))
    /\ sign(BeforeMarker(d), t2) # Ok(AfterMarker(d))

\* C7 as stated: the dual-token validator succeeds whenever validate
\* succeeds under the first or under the second token, and fails with
\* HashInvalid when a well-formed hash matches neither token.
C7_LogicalOr ==
    op = "validate_third_party" =>
        /\ (\/ IsOk(validate(init_data, token, expires_in, now, overflow_checks))
            \/ IsOk(validate(init_data, third_party_token, expires_in, now,
                             overflow_checks)))
              => IsOk(result)
        /\ MatchesNeither(init_data, token, third_party_token)
              => IsErr(result, "HashInvalid")

\* C7 as amended: with two non-empty tokens the dual-token validator
\* succeeds exactly when validate succeeds under the first or under the
\* second token, returning that record; and it fails with HashInvalid when a
\* well-formed hash after a non-empty text matches neither token.
C7_LogicalOrOfTokens ==
    (op = "validate_third_party" /\ token # "" /\ third_party_token # "") =>
        /\ IsOk(result) <=>
              \/ IsOk(validate(init_data, token, expires_in, now, overflow_checks))
              \/ IsOk(validate(init_data, third_party_token, expires_in, now,
                               overflow_checks))
        /\ IsOk(result) =>
              \/ result = validate(init_data, token, expires_in, now, overflow_checks)
              \/ result = validate(init_data, third_party_token, expires_in, now,
                                   overflow_checks)
        /\ (MatchesNeither(init_data, token, third_party_token)
            /\ BeforeMarker(init_data) # "")
              => IsErr(result, "HashInvalid")

\* A dual-token call accepted under the second token only.
C7_Witness ==
    /\ op = "validate_third_party"
    /\ token # ""
    /\ third_party_token # ""
    /\ IsOk(result)
    /\ ~IsOk(validate(init_data, token, expires_in, now, overflow_checks))

(***************************************************************************)
(* The asymmetric validator                                                *)
(***************************************************************************)

\* The signature parameter of d is present, decodes to 64 bytes and
\* verifies over the message of d for the bot under the key.
SignatureVerifies(d, b, key) ==
    /\ Filtered(d).signature_b64 # None
    /\ IsOk(base64_decode(Filtered(d).signature_b64[1]))
    /\ Len(base64_decode(Filtered(d).signature_b64[1]).val) = 64
    /\ ed25519_verify(key, as_bytes(verification_message(d, b)),
                      base64_decode(Filtered(d).signature_b64[1]).val)

\* The key of the environment of the call.
KeyOfCall == IF is_test THEN TEST_PUBLIC_KEY ELSE PROD_PUBLIC_KEY

\* C8: the asymmetric validator checks expiry only after the signature has
\* verified: an input whose signature is undecodable or does not verify is
\* never answered with Expired.
C8_ExpiryAfterVerification ==
    (op = "validate_third_party_with_signature" /\ IsErr(result, "Expired"))
        => SignatureVerifies(init_data, bot_id, KeyOfCall)

\* C9: the asymmetric validator called with expires_in = 0 never returns
\* Expired.
C9_ZeroWindowNeverExpires ==
    (op = "validate_third_party_with_signature" /\ expires_in = Some(0))
        => ~IsErr(result, "Expired")

\* C10: an input whose signature verifies over the message of bot 7 under
\* the production key is accepted (not answered SignatureInvalid, and
\* returned as a record when it decodes) with that bot id in the production
\* environment, and rejected with SignatureInvalid in the test environment
\* or with another bot id (in calls not ended by the expiry check).
C10_EnvironmentSelection ==
    (/\ op = "validate_third_party_with_signature"
     /\ SignatureVerifies(init_data, 7, PROD_PUBLIC_KEY)
     /\ ~IsErr(result, "Expired")
     /\ result # Panic) =>
        IF bot_id = 7 /\ ~is_test
        THEN ~IsErr(result, "SignatureInvalid") /\ (IsOk(parse(init_data)) => IsOk(result))
        ELSE IsErr(result, "SignatureInvalid")

\* A production signature rejected in the test environment.
C10_Witness ==
    /\ op = "validate_third_party_with_signature"
    /\ SignatureVerifies(init_data, 7, PROD_PUBLIC_KEY)
    /\ IsOk(parse(init_data))
    /\ bot_id = 7
    /\ is_test
    /\ expires_in = None
    /\ IsErr(result, "SignatureInvalid")

(***************************************************************************)
(* Rejections caused by the signature                                      *)
(***************************************************************************)

\* Inputs rejected for the signature, each for another cause: a value that
\* is no base64url text, a value that decodes to fewer than 64 bytes, and 64
\* bytes that are not the signature of the message.
SignatureRejects ==
    {"auth_date=1&hash=ff&signature=!!!",
     "auth_date=1&hash=ff&signature=AAAA",
     "auth_date=1&hash=ff&signature=" \o base64_encode([i \in 1..64 |-> 0])}

\* r is no signature rejection, or it is the same error value as s.
SameRejection(r, s) == IsErr(r, "SignatureInvalid") => r = s

\* C11: every rejection of the asymmetric validator caused by the signature
\* is one and the same error value: the rejection of this call equals the
\* rejection of any other input rejected for its signature, whatever the
\* cause.
C11_UniformSignatureError ==
    (op = "validate_third_party_with_signature" /\ IsErr(result, "SignatureInvalid")) =>
        \A d \in SignatureRejects :
            SameRejection(validate_third_party_with_signature(d, bot_id, None, is_test, now, overflow_checks), result)

\* C12: for every non-empty input that contains '=' and has no signature
\* parameter, the asymmetric validator returns SignatureMissing, whatever the
\* bot id, the environment, the auth_date and the window.
C12_SignatureMissing ==
    (/\ op = "validate_third_party_with_signature"
     /\ init_data # ""
     /\ contains(init_data, "=")
     /\ ~PairsHave(form_urlencoded_parse(init_data), "signature"))
        => IsErr(result, "SignatureMissing")

\* A call without signature parameter whose auth_date lies outside the window.
C12_Witness ==
    /\ op = "validate_third_party_with_signature"
    /\ init_data = "auth_date=0&hash=ff"
    /\ expires_in = Some(1)
    /\ now > 1
    /\ IsErr(result, "SignatureMissing")

(***************************************************************************)
(* The gate of sign                                                        *)
(***************************************************************************)

\* C13: sign fails with UnexpectedFormat whenever the raw string is empty,
\* contains a semicolon, or contains no '=' at all.
C13_SanityGate ==
    (/\ op = "sign"
     /\ \/ init_data = ""
        \/ contains(init_data, ";")
        \/ ~contains(init_data, "="))
        => IsErr(result, "UnexpectedFormat")

(***************************************************************************)
(* Statelessness                                                           *)
(***************************************************************************)

\* What the function of the call in progress yields for the arguments of
\* the call at the clock value of the call.
CallResult ==
    CASE op = "sign" -> sign(init_data, token)
      [] op = "validate" -> validate(init_data, token, expires_in, now, overflow_checks)
      [] op = "validate_third_party" ->
            validate_third_party(init_data, token, third_party_token, expires_in, now,
                                 overflow_checks)
      [] op = "validate_third_party_with_signature" ->
            validate_third_party_with_signature(init_data, bot_id, expires_in, is_test,
                                                now, overflow_checks)
      [] OTHER -> result

\* The call in progress has the function, the arguments and the clock value
\* of the recorded call e.
SameCall(e) ==
    /\ e.op = op
    /\ e.init_data = init_data
    /\ e.token = token
    /\ e.third_party_token = third_party_token
    /\ e.expires_in = expires_in
    /\ e.bot_id = bot_id
    /\ e.is_test = is_test
    /\ e.now = now

C15_EmptyTokenRejected ==
    /\ (op = "sign" /\ token = "") => IsErr(result, "UnexpectedFormat")
    /\ (op = "validate" /\ token = "") => result.tag = "Err"
    /\ (op = "validate_third_party" /\ (token = "" \/ third_party_token = ""))
          => result.tag = "Err"

\* validate called with the empty token on an input whose hash is the
\* digest under the key of the empty token.
C15_Witness ==
    /\ op = "validate"
    /\ token = ""
    /\ HasMarker(init_data)
    /\ AfterMarker(init_data) = EmptyTokenDigest(BeforeMarker(init_data))
    /\ IsErr(result, "UnexpectedFormat")

(***************************************************************************)
(* The canonical form                                                      *)
(***************************************************************************)

\* The keys of K as a sequence in strictly ascending byte order.
Ascending(K) ==
    CHOOSE s \in [1..Cardinality(K) -> K] :
        \A i, j \in 1..Cardinality(K) : i < j => StrLess(s[i], s[j])

\* The lines key=value of the keys in ks, each with the value of its last pair.
LinesOf(pairs, ks) ==
    Join([i \in 1..Len(ks) |-> ks[i] \o "=" \o LastOf(pairs, ks[i])], "\n")

\* The canonical form of the pairs without the excluded keys: one line per
\* key with the value of its last occurrence, keys ascending, joined by a
\* newline.
CanonicalLines(pairs, excluded) ==
    LinesOf(pairs, Ascending({pairs[i][1] : i \in DOMAIN pairs} \ excluded))

\* Texts put behind "&hash=".
HashTexts == {"", "existing_hash", ZeroHash, "0&a=9"}

\* C16 as stated: the data-check-string of sign is the canonical form of the
\* parameters without hash (every other key kept, auth_date and signature
\* included), and sign(P + "&hash=" + X, T) = sign(P, T) for every X.
C16_CanonicalForm ==
    op = "sign" =>
        /\ data_check_string(init_data)
              = CanonicalLines(form_urlencoded_parse(init_data), {"hash"})
        /\ \A X \in HashTexts : sign(init_data \o "&hash=" \o X, token) = result

\* C16 as amended: the same for every non-empty P and every X that contains
\* no '&'.
C16_CanonicalFormOfParameters ==
    (op = "sign" /\ init_data # "") =>
        /\ data_check_string(init_data)
              = CanonicalLines(form_urlencoded_parse(init_data), {"hash"})
        /\ \A X \in {Y \in HashTexts : ~contains(Y, "&")} :
              sign(init_data \o "&hash=" \o X, token) = result

\* sign on an input with a repeated key, a hash and a signature parameter.
C16_Witness ==
    /\ op = "sign"
    /\ init_data \in CanonQueries
    /\ IsOk(result)
    /\ data_check_string(init_data) = "auth_date=1\nb=1\nsignature=s"

\* C17: the message the asymmetric validator verifies is the bot id,
\* ":WebAppData", a newline and the canonical form of the parameters without
\* signature and hash: keys unique (a repeated key contributes only its
\* last value), ascending, joined by a newline.
C17_VerificationMessage ==
    (/\ op = "validate_third_party_with_signature"
     /\ init_data # ""
     /\ contains(init_data, "="))
        => verification_message(init_data, bot_id)
              = ToDec(bot_id) \o ":WebAppData\n"
                  \o CanonicalLines(form_urlencoded_parse(init_data), {"hash", "signature"})

(***************************************************************************)
(* The order of the checks of validate                                     *)
(***************************************************************************)

\* The last two steps: r is the decoder's error, or the call went on to the
\* expiry step, which returns no other error than Expired.
DecodeStep(decoded, r) ==
    IF ~IsOk(decoded) THEN r = decoded
    ELSE r.tag = "Err" => r.err = "Expired"

\* The digest step and what follows: r is the error of the recomputation,
\* HashInvalid on a mismatch, or the outcome of the later steps.
DigestStep(d, expected, r) ==
    IF ~IsOk(expected) THEN r = expected
    ELSE IF expected.val # AfterMarker(d) THEN IsErr(r, "HashInvalid")
    ELSE DecodeStep(parse(d), r)

\* r is the error of the first failing step in the order gate, extraction,
\* digest, decoding, expiry.
FirstFailingStep(d, t, r) ==
    IF d = "" \/ ~contains(d, "=") THEN IsErr(r, "UnexpectedFormat")
    ELSE IF ~HasMarker(d) THEN IsErr(r, "HashMissing")
    ELSE IF ~IsHexToken(AfterMarker(d)) THEN IsErr(r, "HashInvalid")
    ELSE DigestStep(d, sign(BeforeMarker(d), t), r)

TokenThenMore(d) ==
    /\ HasMarker(d)
    /\ Len(AfterMarker(d)) > 64
    /\ IsHexToken(SubSeq(AfterMarker(d), 1, 64))

\* C19: for every input in which any character follows the 64-hex token
\* behind the first "&hash=", validate and the dual-token validator return
\* HashInvalid, also when the token is the digest of the other parameters.
C19_HashIsLast ==
    (op \in {"validate", "validate_third_party"} /\ TokenThenMore(init_data))
        => IsErr(result, "HashInvalid")

\* The digest of the text before the marker, followed by another parameter.
C19_Witness ==
    /\ op = "validate"
    /\ TokenThenMore(init_data)
    /\ sign(BeforeMarker(init_data), token)
          = Ok(SubSeq(AfterMarker(init_data), 1, 64))
    /\ IsOk(parse(init_data))
    /\ IsErr(result, "HashInvalid")

(***************************************************************************)
(* The arithmetic of the expiry check                                      *)
(***************************************************************************)

\* The auth_date the expiry check of the call reads and the window it adds.
AuthDateRead ==
    IF op = "validate_third_party_with_signature" THEN Filtered(init_data).auth_date[1]
    ELSE parse(init_data).val.auth_date

WindowAdded ==
    IF op = "validate_third_party_with_signature" THEN expires_in[1]
    ELSE EffectiveWindow(expires_in)

\* C20: in validate, the dual-token validator and the asymmetric validator
\* the sum auth_date + window neither aborts the call nor wraps around: no
\* call ends without a typed result, and Expired is returned only when
\* auth_date + window < now holds of the numbers.
C20_NoArithmeticFailure ==
    (op \in {"validate", "validate_third_party", "validate_third_party_with_signature"}) =>
        /\ result # Panic
        /\ IsErr(result, "Expired") => AuthDateRead + WindowAdded < now

(***************************************************************************)
(* auth_date is required                                                   *)
(***************************************************************************)

Validators == {"validate", "validate_third_party", "validate_third_party_with_signature"}

\* The text is an unsigned integer, JSON whitespace around it aside.
IsUnsignedIntegerText(v) ==
    /\ TrimRight(TrimLeft(v)) # ""
    /\ all_chars(TrimRight(TrimLeft(v)), DecDigits)

\* The input has an auth_date parameter whose value (that of its last
\* occurrence) is an unsigned integer.
GivesAuthDate(d) ==
    /\ PairsHave(form_urlencoded_parse(d), "auth_date")
    /\ IsUnsignedIntegerText(LastOf(form_urlencoded_parse(d), "auth_date"))

\* The hash of the input is the digest of what precedes it under the token.
DigestMatches(d, t) ==
    /\ HasMarker(d)
    /\ IsHexToken(AfterMarker(d))
    /\ sign(BeforeMarker(d), t) = Ok(AfterMarker(d))

\* The input of the call passes the authenticity check of the validator
\* called.
PassesAuthenticity ==
    \/ op = "validate" /\ DigestMatches(init_data, token)
    \/ /\ op = "validate_third_party"
       /\ DigestMatches(init_data, token) \/ DigestMatches(init_data, third_party_token)
    \/ /\ op = "validate_third_party_with_signature"
       /\ SignatureVerifies(init_data, bot_id, KeyOfCall)

\* C21: the three validators never return Ok for an input that has no
\* auth_date parameter or whose auth_date is not an unsigned integer; when
\* such an input passes the authenticity check, the error returned is the
\* decoder's UnexpectedFormat.
C21_AuthDateRequired ==
    (op \in Validators /\ ~GivesAuthDate(init_data)) =>
        /\ ~IsOk(result)
        /\ PassesAuthenticity => IsErr(result, "UnexpectedFormat")

(***************************************************************************)
(* Signed data equals decoded data                                         *)
(***************************************************************************)

\* The pairs of a map, as a set.
PairSet(m) == {m[i] : i \in 1..Len(m)}

\* The pairs the decoder reads from the full raw string, the key hash aside.
DecodedPairs(d) == {p \in PairSet(parse_params(d)) : p[1] # "hash"}

\* The map whose lines make the data-check-string validate has signed:
\* that of the text before the marker.
SignedParams(d) == CollectParams(form_urlencoded_parse(BeforeMarker(d)), <<>>, {"hash"})

\* C22: whenever validate returns Ok, the pairs the decoder reads from
\* the full raw string, other than the key hash, are exactly the pairs of
\* the data-check-string whose digest was compared, and the record returned
\* is the one decoded from those pairs and the hash.
C22_SignedEqualsDecoded ==
    (op = "validate" /\ IsOk(result)) =>
        /\ DecodedPairs(init_data) = PairSet(SignedParams(init_data))
        /\ FormatLines(SignedParams(init_data)) = data_check_string(BeforeMarker(init_data))
        /\ result = DeserializeInitData(btree_insert(SignedParams(init_data), "hash",
                                                    AfterMarker(init_data)))

\* An accepted input with a hash parameter of its own before the marker.
C22_Witness ==
    /\ op = "validate"
    /\ IsOk(result)
    /\ BeforeMarker(init_data) = "hash=ab&auth_date=1"
    /\ DecodedPairs(init_data) = {<<"auth_date", "1">>}

(***************************************************************************)
(* Expiry is monotone in time                                              *)
(***************************************************************************)

\* The clock values at which the call of the state is repeated.
MonotoneTimes == 0..6 \cup {DEFAULT_EXPIRATION + t : t \in 0..6} \cup {U64Max - 1, U64Max}

\* What validate returns for the input, token and window of the state when
\* the clock reads t.
ValidateAt(t) == validate(init_data, token, expires_in, t, overflow_checks)

\* C23: for a fixed input, token and window, once validate returns
\* Expired it returns Expired at every later clock value, and where it
\* returns Ok it returned the same Ok at every earlier clock value, those
\* before auth_date included.
C23_ExpiryMonotone ==
    op = "validate" =>
        \A t \in MonotoneTimes :
            /\ (IsErr(result, "Expired") /\ t >= now) => IsErr(ValidateAt(t), "Expired")
            /\ (IsOk(result) /\ t <= now) => ValidateAt(t) = result

\* An input dated 5 that is accepted under the default window when the
\* clock reads 86401, as it is at the clock values before 5, and expired
\* at 86406.
C23_Witness ==
    /\ op = "validate"
    /\ now = DEFAULT_EXPIRATION + 1
    /\ expires_in = None
    /\ IsOk(result)
    /\ result.val.auth_date = 5
    /\ IsOk(ValidateAt(2))
    /\ IsErr(ValidateAt(DEFAULT_EXPIRATION + 6), "Expired")

(***************************************************************************)
(* The lock and the list of the cursor module                              *)
(***************************************************************************)

\* C24: toggle_cursor_position never blocks on its own lock: in every
\* execution, the one that removes the current position included, the
\* calling thread no longer holds the write lock of CURSOR_POSITIONS when
\* get_cursors takes the read lock, and the call neither blocks for ever
\* nor panics there.
C24_ToggleReleasesBeforeRead ==
    \A t \in Threads :
        /\ pc[t] = "toggle_log" => write_guard # t
        /\ pc[t] # "blocked"

\* C25: the shared cursor list never holds the same (line, column)
\* position twice, whatever the sequence and interleaving of the calls.
C25_NoDuplicatePosition ==
    \A i, j \in 1..Len(cursor_positions) :
        i # j => cursor_positions[i] # cursor_positions[j]

=============================================================================
